---- MODULE Spec2Model ----
(***************************************************************************)
(* Dispensary Hub API (backend/api/main.py): the member-verification gate, *)
(* the inventory movement ledger, the order lifecycle and the audit        *)
(* middleware, over one SQLite database shared by the request threads.     *)
(*                                                                         *)
(* Every handler runs on its own connection (db_conn).  Python's sqlite3   *)
(* opens a transaction implicitly before the first INSERT/UPDATE/DELETE of *)
(* a connection, so the SELECTs a handler runs before its first write each *)
(* read the latest committed database, and the writes stay private to the  *)
(* connection until conn.commit().  SQLite admits one writer at a time.    *)
(***************************************************************************)
EXTENDS Integers, Sequences, FiniteSets, Bags, TLC

(* ---------------------------------------------------------------- bounds *)
\* mutating requests that one run records in audit_events
MaxRequests == 5
\* the last clock second of a run
MaxClock == 1
\* requests of the actor-resolution specification
ActorRequests == 2
\* mutating requests of a run of the member specification
MaxMemberRequests == 5
\* mutating requests of a run of the stock specification
MaxStockRequests == 8

Procs == {"t1", "t2"}
NoProc == "none"

MemberIds == {"m1"}
ProductIds == {"p1"}
OrderIds == {"o1", "o2"}
NoId == "none"
NULL == -1

(* ------------------------------------------------------- request headers *)
\* A header that is not sent, and the JSON values a token payload can hold
\* for a claim besides a string: no such key, or a JSON object.
ABSENT == "<absent>"
OBJECT == "<json object>"

\* One dot-separated part of a bearer token: text that is not base64url of
\* JSON, the encoding of a JSON array, or the encoding of a JSON object with
\* the given "sub" and "username" members.
GARBAGE == [kind |-> "garbage", sub |-> ABSENT, username |-> ABSENT]
ENCLIST == [kind |-> "list", sub |-> ABSENT, username |-> ABSENT]
EncObject(s, u) == [kind |-> "object", sub |-> s, username |-> u]

SubValues == {ABSENT, "", "alice", OBJECT}
UsernameValues == {ABSENT, "", "bob"}
Payloads == {GARBAGE, ENCLIST} \cup {EncObject(s, u) : s \in SubValues, u \in UsernameValues}
Tokens == {<<GARBAGE>>} \cup {<<GARBAGE, q>> : q \in Payloads}
            \cup {<<GARBAGE, EncObject("alice", "bob"), GARBAGE>>}

NoAuth == [scheme |-> ABSENT, token |-> <<>>]
AuthValues == {NoAuth, [scheme |-> "Basic", token |-> <<GARBAGE>>]}
                \cup {[scheme |-> s, token |-> t] : s \in {"Bearer", "bearer"}, t \in Tokens}
XStaffValues == {ABSENT, "", "staff-123"}
Headers == [xstaff : XStaffValues, auth : AuthValues]

\* The headers the service requests are sent with.
HeaderSample == {[xstaff |-> "staff-123", auth |-> NoAuth]}

\* Python truthiness of a looked-up value: None and "" are falsy.
Truthy(v) == v # ABSENT /\ v # ""

\* json.loads(base64.urlsafe_b64decode(...)) followed by payload.get(...) or ...:
\* any exception of the three gives "unknown".
DecodeActor(part) ==
    IF part.kind # "object" THEN "unknown"
    ELSE IF Truthy(part.sub) THEN part.sub
    ELSE IF Truthy(part.username) THEN part.username
    ELSE "unknown"

parse_staff_id(h) ==
    IF Truthy(h.xstaff) THEN h.xstaff
    ELSE IF h.auth.scheme \in {"Bearer", "bearer"} /\ Len(h.auth.token) >= 2
         THEN DecodeActor(h.auth.token[2])
    ELSE "unknown"

\* sqlite3 binds None, int, float, str and bytes; any other Python object
\* raises ProgrammingError at execute().
Bindable(v) == v # OBJECT

(* ------------------------------------------------------------- requests *)
WRITE_METHODS == {"POST", "PUT", "PATCH", "DELETE"}

MemberNumbers == {"M-001", "M-002"}
Outcomes == {"VERIFIED", "REJECTED"}
\* "PENDING" stands for every outcome MemberVerifyIn's pattern refuses.
OutcomeInputs == Outcomes \cup {"PENDING"}
Quantities == {-3, 0, 2}
Line(pr, q) == [product_id |-> pr, quantity |-> q]
\* items of an order request: none, two lines, and a line that OrderItemIn
\* refuses (quantity must be > 0)
ItemInputs == {<<>>, <<Line("p1", 1), Line("p1", 2)>>, <<Line("p1", 0)>>}

Req(op, method, m, o, pr, q, items, outcome, num, h) ==
    [op |-> op, method |-> method, member_id |-> m, order_id |-> o, product_id |-> pr,
     quantity |-> q, items |-> items, outcome |-> outcome, member_number |-> num, headers |-> h]
NoReq == Req("none", "GET", NoId, NoId, NoId, 0, <<>>, "none", "none", [xstaff |-> ABSENT, auth |-> NoAuth])

MemberReqs(h) ==
    {Req("create_member", "POST", NoId, NoId, NoId, 0, <<>>, "none", "M-001", h)}
    \cup {Req("verify_member", "POST", m, NoId, NoId, 0, <<>>, oc, "none", h) :
            m \in MemberIds, oc \in OutcomeInputs}
    \cup {Req("list_members", "GET", NoId, NoId, NoId, 0, <<>>, "none", "none", h)}

OrderReqs(h) ==
    {Req("create_order", "POST", m, NoId, NoId, 0, it, "none", "none", h) :
            m \in MemberIds, it \in ItemInputs}
    \cup {Req("finalize_order", "POST", NoId, o, NoId, 0, <<>>, "none", "none", h) : o \in OrderIds}

InventoryReqs(h) ==
    {Req("create_product", "POST", NoId, NoId, NoId, 0, <<>>, "none", "none", h)}
    \cup {Req("delete_product", "DELETE", NoId, NoId, pr, 0, <<>>, "none", "none", h) : pr \in ProductIds}
    \cup {Req(k, "POST", NoId, NoId, pr, q, <<>>, "none", "none", h) :
            k \in {"inventory_receive", "inventory_adjust", "inventory_waste"},
            pr \in ProductIds, q \in Quantities}

\* The member endpoints with the profile edit and the delete, and orders of
\* two lines
ProfileReqs(h) ==
    {Req("create_member", "POST", NoId, NoId, NoId, 0, <<>>, "none", "M-001", h)}
    \cup {Req("update_member", "PUT", m, NoId, NoId, 0, <<>>, "none", "M-002", h) : m \in MemberIds}
    \cup {Req("delete_member", "DELETE", m, NoId, NoId, 0, <<>>, "none", "none", h) : m \in MemberIds}
    \cup {Req("verify_member", "POST", m, NoId, NoId, 0, <<>>, oc, "none", h) :
            m \in MemberIds, oc \in Outcomes}
    \cup {Req("create_order", "POST", m, NoId, NoId, 0, <<Line("p1", 1), Line("p1", 2)>>, "none", "none", h) :
            m \in MemberIds}
    \cup {Req("finalize_order", "POST", NoId, o, NoId, 0, <<>>, "none", "none", h) : o \in OrderIds}

\* A product received, wasted, adjusted and dispensed: RECEIVE of 5, WASTE
\* of 2, ADJUST of -3 and an order with one line of quantity 1, and the
\* movement requests with a quantity of the wrong sign
StockQuantities(op) ==
    CASE op = "inventory_receive" -> {0, 5}
      [] op = "inventory_waste" -> {-3, 2}
      [] op = "inventory_adjust" -> {-3, 0}

StockReqs(h) ==
    {Req("create_product", "POST", NoId, NoId, NoId, 0, <<>>, "none", "none", h),
     Req("create_member", "POST", NoId, NoId, NoId, 0, <<>>, "none", "M-001", h)}
    \cup UNION {{Req(op, "POST", NoId, NoId, pr, q, <<>>, "none", "none", h) :
                    pr \in ProductIds, q \in StockQuantities(op)} :
                 op \in {"inventory_receive", "inventory_waste", "inventory_adjust"}}
    \cup {Req("verify_member", "POST", m, NoId, NoId, 0, <<>>, "VERIFIED", "none", h) : m \in MemberIds}
    \cup {Req("create_order", "POST", m, NoId, NoId, 0, <<Line(pr, 1)>>, "none", "none", h) :
            m \in MemberIds, pr \in ProductIds}
    \cup {Req("finalize_order", "POST", NoId, o, NoId, 0, <<>>, "none", "none", h) : o \in OrderIds}

LoginReq(h) == Req("staff_login", "POST", NoId, NoId, NoId, 0, <<>>, "none", "none", h)

\* The requests the clients send: to the member and order endpoints, to the
\* product and movement endpoints, and to /staff/login with any headers.
OrderWorkload == UNION {MemberReqs(h) \cup OrderReqs(h) : h \in HeaderSample}
LedgerWorkload == UNION {InventoryReqs(h) : h \in HeaderSample}
LoginWorkload == {LoginReq(h) : h \in Headers}
MemberWorkload == UNION {ProfileReqs(h) : h \in HeaderSample}
StockWorkload == UNION {StockReqs(h) : h \in HeaderSample}

\* The route of a movement endpoint fixes the kind (inventory_receive, ...).
KindOf(op) ==
    CASE op = "inventory_receive" -> "RECEIVE"
      [] op = "inventory_adjust" -> "ADJUST"
      [] op = "inventory_waste" -> "WASTE"
      [] OTHER -> "none"

(* ------------------------------------------------------------- variables *)
VARIABLES
    db,      \* the committed database: what a SELECT of any connection reads
    tx,      \* the database as the connection holding the write lock sees it
    lock,    \* the thread whose connection has an open write transaction
    clock,   \* the current second of the wall clock
    pc,      \* where each request thread stands
    req,     \* the request each thread is serving
    loc,     \* the handler's local variables
    resp     \* the outcome of the handler, once it has one

vars == <<db, tx, lock, clock, pc, req, loc, resp>>

(* -------------------------------------------------------------- database *)
\* init_db: the seven tables, empty.  A table whose rows other rows refer
\* to by id is a function from the ids; an append-only table is a bag of
\* rows (its uuid primary key is left out); order_items is kept per order,
\* in insertion order.  Columns modelled: members(id, member_number,
\* status), member_verifications(member_id, outcome, verified_at),
\* products(id), inventory_movements(product_id, movement_type, quantity,
\* reason), orders(id, member_id, order_number, status, completed_at),
\* order_items(order_id, product_id, quantity), audit_events(actor_id).
\* "used" is no table: it holds the ids of the member and product rows ever
\* committed, which uuid.uuid4() does not return again.
EmptyTable == [x \in {} |-> NULL]
EmptyDb ==
    [members |-> EmptyTable, member_verifications |-> EmptyBag, products |-> {},
     inventory_movements |-> EmptyBag, orders |-> EmptyTable, order_items |-> EmptyTable,
     audit_events |-> EmptyBag, used |-> {}]

\* f with key k mapped to v (k new or not)
Put(f, k, v) == [x \in DOMAIN f \cup {k} |-> IF x = k THEN v ELSE f[x]]
\* f without key k
Drop(f, k) == [x \in DOMAIN f \ {k} |-> f[x]]
AddRow(bag, row) == bag (+) SetToBag({row})

\* ORD-%Y%m%d%H%M%S of the second s
OrderNumber(s) == s
\* "Dispense for order <order_number>"; the reason of a movement endpoint is
\* free text of the caller, modelled as none.
DispenseReason(number) == number
NoReason == NULL

(* ------------------------------------------------------- SQL statements *)
\* Each operator is one statement of a handler, as a function of the
\* database the connection sees.

\* INSERT INTO members ... 'PENDING'
InsertMember(d, id, num) ==
    [d EXCEPT !.members = Put(@, id, [status |-> "PENDING", member_number |-> num]),
              !.used = @ \cup {id}]
\* members.member_number is UNIQUE
MemberNumberTaken(d, num) == \E m \in DOMAIN d.members : d.members[m].member_number = num
\* A faulty variant of update_member's UPDATE, with status = 'PENDING' in
\* its SET list (C13 must tell it from the code's statement)
UpdateMemberProfile_ResetsStatus(d, id, num) ==
    IF id \in DOMAIN d.members
    THEN [d EXCEPT !.members = [@ EXCEPT ![id] = [status |-> "PENDING", member_number |-> num]]]
    ELSE d
\* UPDATE members SET member_number=?, ... WHERE id=?   (status is not in the SET list)
UpdateMemberProfile(d, id, num) ==
    IF id \in DOMAIN d.members
    THEN [d EXCEPT !.members = [@ EXCEPT ![id] = [@ EXCEPT !.member_number = num]]]
    ELSE d
\* DELETE FROM members WHERE id = ?
DeleteMember(d, id) == [d EXCEPT !.members = Drop(@, id)]
\* INSERT INTO member_verifications
InsertVerification(d, id, outcome, now) ==
    [d EXCEPT !.member_verifications =
        AddRow(@, [member_id |-> id, outcome |-> outcome, verified_at |-> now])]
\* UPDATE members SET status = ?, updated_at = ? WHERE id = ?
UpdateMemberStatus(d, id, outcome) ==
    IF id \in DOMAIN d.members
    THEN [d EXCEPT !.members = [@ EXCEPT ![id] = [@ EXCEPT !.status = outcome]]]
    ELSE d
\* INSERT INTO products (create_item of build_crud_routes("/products", ...))
InsertProduct(d, id) == [d EXCEPT !.products = @ \cup {id}, !.used = @ \cup {id}]
\* A faulty variant of the DELETE of a product, which takes the product's
\* movements with it (C20 must tell it from the code's statement)
DeleteProduct_Cascade(d, id) ==
    LET b == d.inventory_movements
        rest == {r \in BagToSet(b) : r.product_id # id}
    IN  [d EXCEPT !.products = @ \ {id}, !.inventory_movements = [r \in rest |-> b[r]]]
\* DELETE FROM products WHERE id = ?
DeleteProduct(d, id) == [d EXCEPT !.products = @ \ {id}]
\* A faulty variant of the INSERT, keyed by the movement's content instead
\* of a fresh uuid: a second movement equal to an earlier one is not stored
\* (C14 must tell it from the code's statement)
InsertMovement_Keyed(d, pr, kind, q, reason) ==
    LET row == [product_id |-> pr, movement_type |-> kind, quantity |-> q, reason |-> reason]
    IN  IF BagIn(row, d.inventory_movements) THEN d
        ELSE [d EXCEPT !.inventory_movements = AddRow(@, row)]
\* INSERT INTO inventory_movements
InsertMovement(d, pr, kind, q, reason) ==
    [d EXCEPT !.inventory_movements =
        AddRow(@, [product_id |-> pr, movement_type |-> kind, quantity |-> q, reason |-> reason])]
\* orders.order_number is UNIQUE
OrderNumberTaken(d, number) == \E o \in DOMAIN d.orders : d.orders[o].order_number = number
\* INSERT INTO orders ... 'PLACED'; completed_at is left NULL
InsertOrder(d, id, m, number) ==
    [d EXCEPT !.orders = Put(@, id, [member_id |-> m, order_number |-> number,
                                     status |-> "PLACED", completed_at |-> NULL]),
              !.order_items = Put(@, id, <<>>)]
\* INSERT INTO order_items
InsertOrderItem(d, id, item) == [d EXCEPT !.order_items = [@ EXCEPT ![id] = Append(@, item)]]
\* UPDATE orders SET status = 'COMPLETED', completed_at = ?, updated_at = ? WHERE id = ?
CompleteOrder(d, id, now) ==
    IF id \in DOMAIN d.orders
    THEN [d EXCEPT !.orders = [@ EXCEPT ![id] = [@ EXCEPT !.status = "COMPLETED", !.completed_at = now]]]
    ELSE d
\* INSERT INTO audit_events
InsertAudit(d, actor) == [d EXCEPT !.audit_events = AddRow(@, [actor_id |-> actor])]

Abs(x) == IF x < 0 THEN -x ELSE x

\* A faulty variant of the quantity checks, which lets a WASTE quantity
\* through whatever its sign (C10 must tell it from the code's checks)
InvalidQuantity_WasteUnchecked(kind, quantity) ==
    \/ kind = "RECEIVE" /\ quantity <= 0
    \/ kind = "ADJUST" /\ quantity = 0

\* A faulty variant of the stored quantity, which keeps the sign of the
\* request (C12 must tell it from the code's -abs(quantity))
StoredQuantity_AsRequested(kind, quantity) == quantity

\* A faulty variant of the quantity checks, which lets a quantity of zero
\* through (C11 must tell it from the code's checks)
InvalidQuantity_ZeroAllowed(kind, quantity) == kind \in {"RECEIVE", "WASTE"} /\ quantity < 0

\* The quantity checks of create_inventory_movement (HTTP 400 when TRUE) ...
InvalidQuantity(kind, quantity) ==
    \/ kind \in {"RECEIVE", "WASTE"} /\ quantity <= 0
    \/ kind = "ADJUST" /\ quantity = 0
\* ... and the quantity it stores
StoredQuantity(kind, quantity) == IF kind = "WASTE" THEN -Abs(quantity) ELSE quantity

\* A faulty variant of require_verified_member, which only looks for the
\* member row (C2 must tell it from the code's check)
require_verified_member_AnyStatus(d, member_id) ==
    IF member_id \notin DOMAIN d.members THEN "NotFound" ELSE "OK"

\* require_verified_member: what it raises, or "OK"
require_verified_member(d, member_id) ==
    IF member_id \notin DOMAIN d.members THEN "NotFound"
    ELSE IF d.members[member_id].status # "VERIFIED" THEN "IneligibleMember"
    ELSE "OK"

\* The derived stock of a product: the sum of the stored quantities of its
\* movements
RECURSIVE SumQuantities(_, _)
SumQuantities(b, rows) ==
    IF rows = {} THEN 0
    ELSE LET r == CHOOSE x \in rows : TRUE
         IN  b[r] * r.quantity + SumQuantities(b, rows \ {r})
Stock(d, pr) ==
    SumQuantities(d.inventory_movements,
                  {r \in BagToSet(d.inventory_movements) : r.product_id = pr})

(* ----------------------------------------------------------- connection *)
NoLoc ==
    [now |-> NULL, new_id |-> NoId, member_id |-> NoId, order_number |-> NULL,
     items |-> <<>>, idx |-> 0]

Init ==
    /\ db = EmptyDb
    /\ tx = EmptyDb
    /\ lock = NoProc
    /\ clock = 0
    /\ pc = [p \in Procs |-> "idle"]
    /\ req = [p \in Procs |-> NoReq]
    /\ loc = [p \in Procs |-> NoLoc]
    /\ resp = [p \in Procs |-> "none"]

\* What a statement of p's connection reads: its own uncommitted writes when
\* it has a transaction open, the committed database otherwise.
Image(p) == IF lock = p THEN tx ELSE db

\* A writing statement waits while another connection holds the write lock.
CanWrite(p) == lock \in {NoProc, p}

\* A faulty variant of conn.execute, on a connection in autocommit mode:
\* each write is committed as it is made (C6 must tell it from the code's
\* connection)
Execute_Autocommit(p, d2) == lock' = p /\ tx' = d2 /\ db' = d2

\* conn.execute of a writing statement that leaves the database as d2: the
\* write stays in p's open transaction.
Execute(p, d2) == lock' = p /\ tx' = d2 /\ db' = db

\* The last writing statement of a with block and db_conn's conn.commit()
\* on leaving it: the transaction becomes the committed database.
ExecuteAndCommit(p, d2) == lock' = NoProc /\ tx' = d2 /\ db' = d2

\* db_conn, leaving the with block by an exception: conn.close() without a
\* commit drops the open transaction.
Rollback(p) ==
    IF lock = p THEN tx' = db /\ db' = db /\ lock' = NoProc
    ELSE UNCHANGED <<db, tx, lock>>

Goto(p, label) == pc' = [pc EXCEPT ![p] = label] /\ req' = req

\* Once the handler has ended its locals are gone; the middleware still
\* reads the route, the method and the headers of the request, and its body
\* (kept here as far as the quantity).
Ended(r) == Req(r.op, r.method, NoId, NoId, NoId, r.quantity, <<>>, "none", "none", r.headers)
SetLoc(p, l) == loc' = [loc EXCEPT ![p] = l]
Actor(p) == parse_staff_id(req[p].headers)

\* Where audit_write_middleware resumes after call_next: an exception
\* passes through it to the server ("failed"), a response to a write
\* method is audited, any other response is returned.
AfterCallNext(method, r) ==
    IF r = "raised" THEN "failed"
    ELSE IF method \in WRITE_METHODS THEN "audit_insert"
    ELSE "respond"

\* The handler (or the middleware's own insert) has ended with outcome r.
Return(p, r) ==
    /\ resp' = [resp EXCEPT ![p] = r]
    /\ req' = [req EXCEPT ![p] = Ended(req[p])]
    /\ loc' = [loc EXCEPT ![p] = NoLoc]
    /\ pc' = [pc EXCEPT ![p] = AfterCallNext(req[p].method, r)]

\* raise HTTPException(...) inside the with block: the connection closes
\* without a commit and the response carries the error.
HTTPError(p, r) == Rollback(p) /\ Return(p, r)

\* An exception that is no HTTPException (sqlite3.IntegrityError,
\* sqlite3.ProgrammingError, TypeError) leaves the with block the same way
\* and is not turned into a response.
Raise(p) == HTTPError(p, "raised")

\* A writing statement that is not the last of its with block
Wrote(p, d2, label) == Execute(p, d2) /\ Goto(p, label) /\ resp' = resp

\* The last statement of the with block, the commit, and the handler's return
Committed(p, d2, r) == ExecuteAndCommit(p, d2) /\ Return(p, r)

\* The ids held by requests in flight
Reserved == {loc[q].new_id : q \in Procs}
Fresh(ids) == ids \ (db.used \cup DOMAIN db.orders \cup Reserved)
\* The mutating requests whose audit row is still to be written
InFlightWrites ==
    Cardinality({q \in Procs : pc[q] \notin {"idle", "failed"} /\ req[q].method \in WRITE_METHODS})
Recorded == BagCardinality(db.audit_events)

\* The ids a handler draws from uuid.uuid4() for the row it creates
IdPool(op) ==
    CASE op = "create_member" -> MemberIds
      [] op = "create_product" -> ProductIds
      [] op = "create_order" -> OrderIds
      [] OTHER -> {}

\* Request validation (pydantic) and the checks a handler makes before it
\* opens its connection: the outcome when one of them ends the request,
\* "none" otherwise.
EarlyOutcome(r) ==
    CASE r.op = "verify_member" /\ r.outcome \notin Outcomes -> "ValidationError"
      [] r.op = "create_order" /\ (\E i \in DOMAIN r.items : r.items[i].quantity <= 0) -> "ValidationError"
      [] r.op = "create_order" /\ r.items = <<>> -> "EmptyOrder"
      [] KindOf(r.op) # "none" /\ InvalidQuantity(KindOf(r.op), r.quantity) -> "InvalidQuantity"
      [] r.op = "staff_login" -> "OK"
      [] OTHER -> "none"

\* The handlers that store the utc_now() they read on entry in a column
\* that is modelled (verified_at, completed_at)
StampedOps == {"verify_member", "finalize_order"}

\* The first statement of each handler on its connection
FirstStatement(op) ==
    CASE op = "create_member" -> "create_member"
      [] op = "update_member" -> "update_member_select"
      [] op = "delete_member" -> "delete_member"
      [] op = "verify_member" -> "verify_member_select"
      [] op = "list_members" -> "list_members"
      [] op = "create_product" -> "create_item"
      [] op = "delete_product" -> "delete_item"
      [] op = "create_order" -> "create_order_check"
      [] op = "finalize_order" -> "finalize_order_select"
      [] OTHER -> "movement_select"

\* A request arrives: the middleware calls the handler, which reads the
\* clock (utc_now, and the order number of create_order) and draws its uuid.
Begin(p, r, budget) ==
    /\ pc[p] = "idle"
    /\ r.method \in WRITE_METHODS => Recorded + InFlightWrites < budget
    /\ IdPool(r.op) # {} => Fresh(IdPool(r.op)) # {}
    /\ IF EarlyOutcome(r) # "none"
       THEN /\ req' = [req EXCEPT ![p] = Ended(r)]
            /\ resp' = [resp EXCEPT ![p] = EarlyOutcome(r)]
            /\ pc' = [pc EXCEPT ![p] = AfterCallNext(r.method, EarlyOutcome(r))]
            /\ loc' = loc
       ELSE /\ req' = [req EXCEPT ![p] = r]
            /\ resp' = resp
            /\ pc' = [pc EXCEPT ![p] = FirstStatement(r.op)]
            /\ loc' = [loc EXCEPT ![p] =
                        [NoLoc EXCEPT !.now = IF r.op \in StampedOps THEN clock ELSE NULL,
                                      !.order_number = IF r.op = "create_order" THEN OrderNumber(clock) ELSE NULL,
                                      !.new_id = IF IdPool(r.op) = {} THEN NoId
                                                 ELSE CHOOSE i \in Fresh(IdPool(r.op)) : TRUE]]
    /\ UNCHANGED <<db, tx, lock, clock>>

OrderRequest(p) == \E r \in OrderWorkload : Begin(p, r, MaxRequests)
LedgerRequest(p) == \E r \in LedgerWorkload : Begin(p, r, MaxRequests)
LoginRequest(p) == \E r \in LoginWorkload : Begin(p, r, ActorRequests)
MemberRequest(p) == \E r \in MemberWorkload : Begin(p, r, MaxMemberRequests)
StockRequest(p) == \E r \in StockWorkload : Begin(p, r, MaxStockRequests)

\* The wall clock reaches the next second.
Tick ==
    /\ clock < MaxClock
    /\ clock' = clock + 1
    /\ UNCHANGED <<db, tx, lock, pc, req, loc, resp>>

(* ------------------------------------------------------------- handlers *)
create_member(p) ==
    /\ pc[p] = "create_member" /\ CanWrite(p)
    /\ IF MemberNumberTaken(Image(p), req[p].member_number)
       THEN Raise(p)
       ELSE Committed(p, InsertMember(Image(p), loc[p].new_id, req[p].member_number), "OK")
    /\ UNCHANGED clock

verify_member_select(p) ==
    /\ pc[p] = "verify_member_select"
    /\ IF req[p].member_id \notin DOMAIN db.members
       THEN HTTPError(p, "NotFound")
       ELSE Goto(p, "verify_member_insert") /\ UNCHANGED <<db, tx, lock, loc, resp>>
    /\ UNCHANGED clock

verify_member_insert(p) ==
    /\ pc[p] = "verify_member_insert" /\ CanWrite(p)
    /\ IF ~Bindable(Actor(p))
       THEN Raise(p)
       ELSE /\ Wrote(p, InsertVerification(Image(p), req[p].member_id, req[p].outcome, loc[p].now),
                     "verify_member_update")
            /\ loc' = loc
    /\ UNCHANGED clock

\* The UPDATE, then SELECT * ... fetchone() and the commit; dict(row) after
\* the with block raises TypeError when the row is gone.
verify_member_update(p) ==
    /\ pc[p] = "verify_member_update" /\ CanWrite(p)
    /\ LET d == Image(p)
           id == req[p].member_id
       IN  Committed(p, UpdateMemberStatus(d, id, req[p].outcome),
                     IF id \in DOMAIN d.members THEN "OK" ELSE "raised")
    /\ UNCHANGED clock

\* update_member: SELECT id FROM members WHERE id = ? and the 404
update_member_select(p) ==
    /\ pc[p] = "update_member_select"
    /\ IF req[p].member_id \notin DOMAIN db.members
       THEN HTTPError(p, "NotFound")
       ELSE Goto(p, "update_member_update") /\ UNCHANGED <<db, tx, lock, loc, resp>>
    /\ UNCHANGED clock

\* The UPDATE of the profile columns (sqlite3.IntegrityError when another
\* member has the member_number), SELECT * ... fetchone() and the commit;
\* dict(row) after the with block raises TypeError when the row is gone.
update_member_update(p) ==
    /\ pc[p] = "update_member_update" /\ CanWrite(p)
    /\ LET d == Image(p)
           id == req[p].member_id
       IN  IF \E m \in DOMAIN d.members \ {id} : d.members[m].member_number = req[p].member_number
           THEN Raise(p)
           ELSE Committed(p, UpdateMemberProfile(d, id, req[p].member_number),
                          IF id \in DOMAIN d.members THEN "OK" ELSE "raised")
    /\ UNCHANGED clock

\* delete_member: the DELETE and the commit; rowcount decides the 404 after
\* the with block.
delete_member(p) ==
    /\ pc[p] = "delete_member" /\ CanWrite(p)
    /\ LET d == Image(p)
           id == req[p].member_id
       IN  Committed(p, DeleteMember(d, id), IF id \in DOMAIN d.members THEN "OK" ELSE "NotFound")
    /\ UNCHANGED clock

list_members(p) ==
    /\ pc[p] = "list_members"
    /\ Return(p, "OK")
    /\ UNCHANGED <<db, tx, lock, clock>>

\* create_item and delete_item of build_crud_routes("/products", "products", ProductIn)
create_item(p) ==
    /\ pc[p] = "create_item" /\ CanWrite(p)
    /\ Committed(p, InsertProduct(Image(p), loc[p].new_id), "OK")
    /\ UNCHANGED clock

\* rowcount decides the 404 after the with block has committed.
delete_item(p) ==
    /\ pc[p] = "delete_item" /\ CanWrite(p)
    /\ LET d == Image(p)
           id == req[p].product_id
       IN  Committed(p, DeleteProduct(d, id), IF id \in d.products THEN "OK" ELSE "NotFound")
    /\ UNCHANGED clock

\* create_inventory_movement, from the product lookup on
movement_select(p) ==
    /\ pc[p] = "movement_select"
    /\ IF req[p].product_id \notin db.products
       THEN HTTPError(p, "NotFound")
       ELSE Goto(p, "movement_insert") /\ UNCHANGED <<db, tx, lock, loc, resp>>
    /\ UNCHANGED clock

movement_insert(p) ==
    /\ pc[p] = "movement_insert" /\ CanWrite(p)
    /\ IF ~Bindable(Actor(p))
       THEN Raise(p)
       ELSE Committed(p, InsertMovement(Image(p), req[p].product_id, KindOf(req[p].op),
                                        StoredQuantity(KindOf(req[p].op), req[p].quantity), NoReason),
                      "OK")
    /\ UNCHANGED clock

(* --------------------------------------------------------------- orders *)
create_order_check(p) ==
    /\ pc[p] = "create_order_check"
    /\ LET r == require_verified_member(db, req[p].member_id)
       IN  IF r # "OK"
           THEN HTTPError(p, r)
           ELSE Goto(p, "create_order_insert") /\ UNCHANGED <<db, tx, lock, loc, resp>>
    /\ UNCHANGED clock

create_order_insert(p) ==
    /\ pc[p] = "create_order_insert" /\ CanWrite(p)
    /\ IF ~Bindable(Actor(p)) \/ OrderNumberTaken(Image(p), loc[p].order_number)
       THEN Raise(p)
       ELSE /\ Wrote(p, InsertOrder(Image(p), loc[p].new_id, req[p].member_id, loc[p].order_number),
                     "create_order_item")
            /\ SetLoc(p, [loc[p] EXCEPT !.idx = 1])
    /\ UNCHANGED clock

\* for item in payload.items: one INSERT INTO order_items per step; the
\* with block ends after the last.
create_order_item(p) ==
    /\ pc[p] = "create_order_item" /\ CanWrite(p)
    /\ LET i == loc[p].idx
           d2 == InsertOrderItem(Image(p), loc[p].new_id, req[p].items[i])
       IN  IF i = Len(req[p].items)
           THEN Committed(p, d2, "OK")
           ELSE Wrote(p, d2, "create_order_item") /\ SetLoc(p, [loc[p] EXCEPT !.idx = i + 1])
    /\ UNCHANGED clock

\* A faulty variant of the first step of finalize_order, without the check
\* of the order's status (C4 must tell it from the code's step)
finalize_order_select_NoStatusCheck(p) ==
    /\ pc[p] = "finalize_order_select"
    /\ LET id == req[p].order_id
       IN  IF id \notin DOMAIN db.orders THEN HTTPError(p, "NotFound")
           ELSE /\ Goto(p, "finalize_order_check")
                /\ SetLoc(p, [loc[p] EXCEPT !.member_id = db.orders[id].member_id,
                                            !.order_number = db.orders[id].order_number])
                /\ UNCHANGED <<db, tx, lock, resp>>
    /\ UNCHANGED clock

\* SELECT * FROM orders WHERE id = ? and the two checks on the row
finalize_order_select(p) ==
    /\ pc[p] = "finalize_order_select"
    /\ LET id == req[p].order_id
       IN  IF id \notin DOMAIN db.orders THEN HTTPError(p, "NotFound")
           ELSE IF db.orders[id].status = "COMPLETED" THEN HTTPError(p, "AlreadyFinalized")
           ELSE /\ Goto(p, "finalize_order_check")
                /\ SetLoc(p, [loc[p] EXCEPT !.member_id = db.orders[id].member_id,
                                            !.order_number = db.orders[id].order_number])
                /\ UNCHANGED <<db, tx, lock, resp>>
    /\ UNCHANGED clock

\* A faulty variant of the checks of finalize_order, which refuses an order
\* with a line that exceeds the derived stock of its product (C22 must tell
\* it from the code's checks)
finalize_order_check_StockGuard(p) ==
    /\ pc[p] = "finalize_order_check"
    /\ LET r == require_verified_member(db, loc[p].member_id)
           items == db.order_items[req[p].order_id]
       IN  IF r # "OK" THEN HTTPError(p, r)
           ELSE IF items = <<>> THEN HTTPError(p, "EmptyOrder")
           ELSE IF \E i \in DOMAIN items : Stock(db, items[i].product_id) < items[i].quantity
                THEN HTTPError(p, "InvalidQuantity")
           ELSE /\ Goto(p, "finalize_order_insert")
                /\ SetLoc(p, [loc[p] EXCEPT !.items = items, !.idx = 1])
                /\ UNCHANGED <<db, tx, lock, resp>>
    /\ UNCHANGED clock

\* require_verified_member(conn, order["member_id"]), then SELECT product_id,
\* quantity FROM order_items WHERE order_id = ?  (the lines of an order are
\* written once, in the transaction that creates it, so the second SELECT
\* reads the same rows whenever it runs)
finalize_order_check(p) ==
    /\ pc[p] = "finalize_order_check"
    /\ LET r == require_verified_member(db, loc[p].member_id)
           items == db.order_items[req[p].order_id]
       IN  IF r # "OK" THEN HTTPError(p, r)
           ELSE IF items = <<>> THEN HTTPError(p, "EmptyOrder")
           ELSE /\ Goto(p, "finalize_order_insert")
                /\ SetLoc(p, [loc[p] EXCEPT !.items = items, !.idx = 1])
                /\ UNCHANGED <<db, tx, lock, resp>>
    /\ UNCHANGED clock

\* for item in items: one INSERT of a DISPENSE movement per step
finalize_order_insert(p) ==
    /\ pc[p] = "finalize_order_insert" /\ CanWrite(p)
    /\ LET i == loc[p].idx
           item == loc[p].items[i]
       IN  IF ~Bindable(Actor(p))
           THEN Raise(p)
           ELSE /\ Wrote(p, InsertMovement(Image(p), item.product_id, "DISPENSE", -Abs(item.quantity),
                                           DispenseReason(loc[p].order_number)),
                         IF i = Len(loc[p].items) THEN "finalize_order_update" ELSE "finalize_order_insert")
                /\ SetLoc(p, [loc[p] EXCEPT !.idx = i + 1])
    /\ UNCHANGED clock

\* The UPDATE to COMPLETED, the SELECT of the row and the commit
finalize_order_update(p) ==
    /\ pc[p] = "finalize_order_update" /\ CanWrite(p)
    /\ Committed(p, CompleteOrder(Image(p), req[p].order_id, loc[p].now), "OK")
    /\ UNCHANGED clock

(* ----------------------------------------------------------- middleware *)
\* The request is over: the thread takes the next one.
Done(p) ==
    /\ pc' = [pc EXCEPT ![p] = "idle"]
    /\ req' = [req EXCEPT ![p] = NoReq]
    /\ loc' = [loc EXCEPT ![p] = NoLoc]
    /\ resp' = [resp EXCEPT ![p] = "none"]

\* audit_write_middleware after call_next: INSERT INTO audit_events in a
\* with block of its own, then return response
audit_write_middleware(p) ==
    /\ pc[p] = "audit_insert" /\ CanWrite(p)
    /\ IF ~Bindable(Actor(p))
       THEN Rollback(p) /\ Return(p, "raised")
       ELSE ExecuteAndCommit(p, InsertAudit(Image(p), Actor(p))) /\ Done(p)
    /\ UNCHANGED clock

\* The response to a read, or the exception, leaves the service.
Respond(p) ==
    /\ pc[p] \in {"respond", "failed"}
    /\ Done(p)
    /\ UNCHANGED <<db, tx, lock, clock>>

\* The places where a handler executes a writing statement
WritingPcs ==
    {"create_member", "update_member_update", "delete_member", "verify_member_insert",
     "verify_member_update", "create_item", "delete_item", "movement_insert",
     "create_order_insert", "create_order_item", "finalize_order_insert", "finalize_order_update"}

\* SQLite fails a statement of a handler (sqlite3.OperationalError: database
\* is locked after the busy timeout, disk I/O error): the exception leaves
\* the with block and the handler.
StoreFailure(p) ==
    /\ pc[p] \in WritingPcs
    /\ Rollback(p)
    /\ Return(p, "raised")
    /\ UNCHANGED clock

(* ------------------------------------------------------- specifications *)
\* The member and order endpoints
Next ==
    \/ Tick
    \/ \E p \in Procs : OrderRequest(p)
    \/ \E p \in Procs : create_member(p)
    \/ \E p \in Procs : verify_member_select(p)
    \/ \E p \in Procs : verify_member_insert(p)
    \/ \E p \in Procs : verify_member_update(p)
    \/ \E p \in Procs : list_members(p)
    \/ \E p \in Procs : create_order_check(p)
    \/ \E p \in Procs : create_order_insert(p)
    \/ \E p \in Procs : create_order_item(p)
    \/ \E p \in Procs : finalize_order_select(p)
    \/ \E p \in Procs : finalize_order_check(p)
    \/ \E p \in Procs : finalize_order_insert(p)
    \/ \E p \in Procs : finalize_order_update(p)
    \/ \E p \in Procs : audit_write_middleware(p)
    \/ \E p \in Procs : Respond(p)
    \/ \E p \in Procs : StoreFailure(p)

Spec == Init /\ [][Next]_vars

\* The product and movement endpoints
NextLedger ==
    \/ \E p \in Procs : LedgerRequest(p)
    \/ \E p \in Procs : create_item(p)
    \/ \E p \in Procs : delete_item(p)
    \/ \E p \in Procs : movement_select(p)
    \/ \E p \in Procs : movement_insert(p)
    \/ \E p \in Procs : audit_write_middleware(p)
    \/ \E p \in Procs : Respond(p)
    \/ \E p \in Procs : StoreFailure(p)

SpecLedger == Init /\ [][NextLedger]_vars

\* /staff/login with every combination of headers
NextActor ==
    \/ \E p \in Procs : LoginRequest(p)
    \/ \E p \in Procs : audit_write_middleware(p)
    \/ \E p \in Procs : Respond(p)

SpecActor == Init /\ [][NextActor]_vars

\* The member endpoints with profile edits and deletes, and the orders
NextMember ==
    \/ \E p \in Procs : MemberRequest(p)
    \/ \E p \in Procs : create_member(p)
    \/ \E p \in Procs : update_member_select(p)
    \/ \E p \in Procs : update_member_update(p)
    \/ \E p \in Procs : delete_member(p)
    \/ \E p \in Procs : verify_member_select(p)
    \/ \E p \in Procs : verify_member_insert(p)
    \/ \E p \in Procs : verify_member_update(p)
    \/ \E p \in Procs : create_order_check(p)
    \/ \E p \in Procs : create_order_insert(p)
    \/ \E p \in Procs : create_order_item(p)
    \/ \E p \in Procs : finalize_order_select(p)
    \/ \E p \in Procs : finalize_order_check(p)
    \/ \E p \in Procs : finalize_order_insert(p)
    \/ \E p \in Procs : finalize_order_update(p)
    \/ \E p \in Procs : audit_write_middleware(p)
    \/ \E p \in Procs : Respond(p)
    \/ \E p \in Procs : StoreFailure(p)

SpecMember == Init /\ [][NextMember]_vars

\* The movement endpoints together with the orders that dispense
NextStock ==
    \/ \E p \in Procs : StockRequest(p)
    \/ \E p \in Procs : create_item(p)
    \/ \E p \in Procs : movement_select(p)
    \/ \E p \in Procs : movement_insert(p)
    \/ \E p \in Procs : create_member(p)
    \/ \E p \in Procs : verify_member_select(p)
    \/ \E p \in Procs : verify_member_insert(p)
    \/ \E p \in Procs : verify_member_update(p)
    \/ \E p \in Procs : create_order_check(p)
    \/ \E p \in Procs : create_order_insert(p)
    \/ \E p \in Procs : create_order_item(p)
    \/ \E p \in Procs : finalize_order_select(p)
    \/ \E p \in Procs : finalize_order_check(p)
    \/ \E p \in Procs : finalize_order_insert(p)
    \/ \E p \in Procs : finalize_order_update(p)
    \/ \E p \in Procs : audit_write_middleware(p)
    \/ \E p \in Procs : Respond(p)

SpecStock == Init /\ [][NextStock]_vars

(* ------------------------------------------------------------ properties *)
MemberVerified(d, m) == m \in DOMAIN d.members /\ d.members[m].status = "VERIFIED"

\* The DISPENSE movements whose reason names the order's number
DispenseOf(d, o) ==
    LET b == d.inventory_movements
        rows == {r \in BagToSet(b) : r.movement_type = "DISPENSE" /\ r.reason = d.orders[o].order_number}
    IN  [r \in rows |-> b[r]]

\* The movement that dispenses an order line
LineRow(item, number) ==
    [product_id |-> item.product_id, movement_type |-> "DISPENSE", quantity |-> -item.quantity,
     reason |-> number]

\* One DISPENSE movement per line of the order, each with the line's product
\* and minus its quantity
DispensedPerLine(d, o) ==
    LET b == DispenseOf(d, o)
        items == d.order_items[o]
    IN  /\ BagCardinality(b) = Len(items)
        /\ \A r \in BagToSet(b) :
              b[r] = Cardinality({i \in DOMAIN items : LineRow(items[i], d.orders[o].order_number) = r})

\* The thread p takes a step
Steps(p) == pc'[p] # pc[p]

\* C1: a step commits DISPENSE movements for an order only if that order's
\* member has status VERIFIED in the database the step commits.
C1_DispenseOnlyToVerified ==
    [][\A o \in DOMAIN db.orders :
          BagCardinality(DispenseOf(db', o)) > BagCardinality(DispenseOf(db, o))
              => MemberVerified(db', db.orders[o].member_id)]_vars

C3_OneFinalizeSucceeds ==
    [][\A p \in Procs :
          (pc[p] = "finalize_order_update" /\ resp'[p] = "OK")
              => db.orders[req[p].order_id].status = "PLACED"]_vars

\* C4: a finalizeOrder that reads the order after an earlier one has
\* completed it ends with AlreadyFinalized and changes nothing in the
\* database; all that the request still writes is its audit row.
C4_SecondFinalizeRejected ==
    [][\A p \in Procs :
          /\ (/\ pc[p] = "finalize_order_select" /\ Steps(p)
              /\ req[p].order_id \in DOMAIN db.orders
              /\ db.orders[req[p].order_id].status = "COMPLETED")
                 => /\ resp'[p] = "AlreadyFinalized" /\ pc'[p] = "audit_insert"
                    /\ db' = db /\ lock' = lock
          /\ (pc[p] = "audit_insert" /\ req[p].op = "finalize_order" /\ Steps(p))
                 => /\ db'.inventory_movements = db.inventory_movements
                    /\ db'.orders = db.orders]_vars

\* C4 witness: the second finalizeOrder on a completed order has been
\* refused.
C4_Witness ==
    \E p \in Procs :
        /\ pc[p] = "audit_insert" /\ req[p].op = "finalize_order" /\ resp[p] = "AlreadyFinalized"
        /\ \E o \in DOMAIN db.orders : db.orders[o].status = "COMPLETED" /\ DispensedPerLine(db, o)

\* C5: every COMPLETED order has one DISPENSE movement per order line, with
\* the line's product and minus the line's quantity.
C5_DispensePerLine ==
    \A o \in DOMAIN db.orders : db.orders[o].status = "COMPLETED" => DispensedPerLine(db, o)

\* C6: in the committed database a PLACED order has no DISPENSE movement:
\* the movements of an order appear together with its transition to
\* COMPLETED or not at all.
C6_NoPartialDispense ==
    \A o \in DOMAIN db.orders :
        db.orders[o].status = "PLACED" => BagCardinality(DispenseOf(db, o)) = 0

\* C6 witness: a finalizeOrder has inserted the first of two DISPENSE
\* movements in its open transaction, and has not committed.
C6_Witness ==
    \E p \in Procs :
        /\ pc[p] = "finalize_order_insert" /\ lock = p /\ loc[p].idx = 2
        /\ tx.inventory_movements # db.inventory_movements
        /\ db.orders[req[p].order_id].status = "PLACED"

\* C7: a createOrder that has passed the eligibility check inserts its order
\* (it does not raise), and the orders have distinct numbers.
C7_BothOrdersCreated ==
    [][\A p \in Procs :
          /\ create_order_insert(p) => resp'[p] # "raised"
          /\ \A o1, o2 \in DOMAIN db'.orders :
                o1 # o2 => db'.orders[o1].order_number # db'.orders[o2].order_number]_vars

\* C8: a request that ends has appended exactly one audit event if its
\* method is a write method, whatever its outcome, and none otherwise; the
\* event is appended once the handler has its outcome.
C8_OneAuditPerWrite ==
    [][\A p \in Procs :
          /\ (pc[p] # "idle" /\ pc'[p] = "idle")
                => BagCardinality(db'.audit_events) =
                     BagCardinality(db.audit_events) + (IF req[p].method \in WRITE_METHODS THEN 1 ELSE 0)
          /\ (Steps(p) /\ db'.audit_events # db.audit_events) => resp[p] # "none"]_vars

\* The actor C9 names: the x-staff-id header when present and non-empty,
\* else the sub of the bearer token's payload, else its username, else
\* "unknown".
Given(v) == v \notin {ABSENT, ""}
ClaimedActor(h) ==
    LET bearer == h.auth.scheme \in {"Bearer", "bearer"} /\ Len(h.auth.token) >= 2
        payload == IF bearer /\ h.auth.token[2].kind = "object" THEN h.auth.token[2] ELSE GARBAGE
    IN  IF Given(h.xstaff) THEN h.xstaff
        ELSE IF Given(payload.sub) THEN payload.sub
        ELSE IF Given(payload.username) THEN payload.username
        ELSE "unknown"

\* C9: the audit event of a mutating call stores that actor, and resolving
\* the actor never fails the request, whatever the headers.
C9_ActorRecorded ==
    [][\A p \in Procs :
          (pc[p] = "audit_insert" /\ Steps(p))
              => /\ pc'[p] = "idle"
                 /\ db'.audit_events = AddRow(db.audit_events, [actor_id |-> ClaimedActor(req[p].headers)])]_vars

\* C10 as stated: a WASTE request with a negative quantity is accepted.
C10_NegativeWasteAccepted ==
    [][\A p \in Procs : \A r \in LedgerWorkload :
          (Begin(p, r, MaxRequests) /\ r.op = "inventory_waste" /\ r.quantity < 0)
              => resp'[p] # "InvalidQuantity"]_vars

\* C10 amended: a WASTE request with a quantity that is not positive ends
\* with InvalidQuantity before the database is touched; a WASTE request that
\* succeeds has a positive quantity q and appends one movement of -q.
C10_WasteNeedsPositive ==
    [][\A p \in Procs :
          /\ \A r \in LedgerWorkload :
                (Begin(p, r, MaxRequests) /\ r.op = "inventory_waste" /\ r.quantity <= 0)
                    => resp'[p] = "InvalidQuantity" /\ pc'[p] = "audit_insert" /\ db' = db
          /\ (pc[p] = "movement_insert" /\ req[p].op = "inventory_waste" /\ resp'[p] = "OK")
                => /\ req[p].quantity > 0
                   /\ db'.inventory_movements =
                        AddRow(db.inventory_movements,
                               [product_id |-> req[p].product_id, movement_type |-> "WASTE",
                                quantity |-> -req[p].quantity, reason |-> NoReason])]_vars

\* C10 witness: WASTE of -3 has been refused with InvalidQuantity, while a
\* WASTE movement of -2 (requested as 2) is in the ledger.
C10_Witness ==
    \E p \in Procs :
        /\ pc[p] = "audit_insert" /\ req[p].op = "inventory_waste"
        /\ req[p].quantity = -3 /\ resp[p] = "InvalidQuantity"
        /\ \E r \in BagToSet(db.inventory_movements) : r.movement_type = "WASTE" /\ r.quantity = -2

\* C11: a movement request of kind ADJUST with quantity 0, or of kind
\* RECEIVE with a quantity of 0 or less, ends with InvalidQuantity before the
\* database is touched, and the rest of the request (its audit row) leaves
\* the movements and every product's derived stock as they were.
C11_InvalidQuantityRejected ==
    [][\A p \in Procs :
          /\ \A r \in LedgerWorkload :
                (/\ Begin(p, r, MaxRequests)
                 /\ \/ r.op = "inventory_adjust" /\ r.quantity = 0
                    \/ r.op = "inventory_receive" /\ r.quantity <= 0)
                    => resp'[p] = "InvalidQuantity" /\ pc'[p] = "audit_insert" /\ db' = db
          /\ (pc[p] = "audit_insert" /\ resp[p] = "InvalidQuantity" /\ Steps(p))
                => /\ db'.inventory_movements = db.inventory_movements
                   /\ \A pr \in ProductIds : Stock(db', pr) = Stock(db, pr)]_vars

\* C11 witness: an ADJUST of 0 and a RECEIVE of -3 have both been refused,
\* for a product that has movements.
C11_Witness ==
    /\ \E p \in Procs :
          /\ pc[p] = "audit_insert" /\ req[p].op = "inventory_adjust"
          /\ req[p].quantity = 0 /\ resp[p] = "InvalidQuantity"
    /\ \E p \in Procs :
          /\ pc[p] = "audit_insert" /\ req[p].op = "inventory_receive"
          /\ req[p].quantity = -3 /\ resp[p] = "InvalidQuantity"
    /\ Stock(db, "p1") # 0

\* The sign that the type of a movement gives its quantity
SignOk(r) ==
    CASE r.movement_type = "RECEIVE" -> r.quantity > 0
      [] r.movement_type \in {"WASTE", "DISPENSE"} -> r.quantity < 0
      [] r.movement_type = "ADJUST" -> r.quantity # 0

\* C12: every movement row, committed or written in an open transaction,
\* has the sign of its type (RECEIVE > 0, WASTE < 0, DISPENSE < 0,
\* ADJUST # 0), and the row of a successful ADJUST stores the quantity of
\* the request, sign included.
C12_SignByType ==
    [][/\ \A r \in BagToSet(db'.inventory_movements) \cup BagToSet(tx'.inventory_movements) : SignOk(r)
       /\ \A p \in Procs :
             (pc[p] = "movement_insert" /\ req[p].op = "inventory_adjust" /\ resp'[p] = "OK")
                 => db'.inventory_movements =
                      AddRow(db.inventory_movements,
                             [product_id |-> req[p].product_id, movement_type |-> "ADJUST",
                              quantity |-> req[p].quantity, reason |-> NoReason])]_vars

\* C12 witness: the ledger holds a row of each of the four types.
C12_Witness ==
    \A k \in {"RECEIVE", "WASTE", "ADJUST", "DISPENSE"} :
        \E r \in BagToSet(db.inventory_movements) : r.movement_type = k

\* The members that a step keeps
Kept == DOMAIN db.members \cap DOMAIN db'.members

\* C13: a member enters the database with status PENDING; a step changes
\* the status of a member only if it is the commit of a verify_member on
\* that member that succeeds, and then to the outcome of that request; the
\* steps of update_member, create_order and finalize_order change no status.
C13_StatusOnlyByDecision ==
    [][/\ \A m \in DOMAIN db'.members \ DOMAIN db.members : db'.members[m].status = "PENDING"
       /\ \A m \in Kept :
             db'.members[m].status # db.members[m].status
                 => \E p \in Procs :
                       /\ pc[p] = "verify_member_update" /\ req[p].member_id = m
                       /\ resp'[p] = "OK" /\ db'.members[m].status = req[p].outcome
       /\ \A p \in Procs :
             (Steps(p) /\ req[p].op \in {"update_member", "create_order", "finalize_order"})
                 => \A m \in Kept : db'.members[m].status = db.members[m].status]_vars

\* C13 witness: a member decided VERIFIED, whose profile was edited and
\* whose order was finalized, is still VERIFIED.
C13_Witness ==
    \E m \in DOMAIN db.members :
        /\ db.members[m].status = "VERIFIED" /\ db.members[m].member_number = "M-002"
        /\ \E o \in DOMAIN db.orders : db.orders[o].member_id = m /\ db.orders[o].status = "COMPLETED"

\* The quantity a successful movement request adds to the derived stock:
\* RECEIVE of q adds q, WASTE of q takes q, ADJUST of q adds q (q signed)
Effect(op, q) == IF op = "inventory_waste" THEN -q ELSE q

\* The quantity the lines of an order take of a product
RECURSIVE Ordered(_, _)
Ordered(items, pr) ==
    IF items = <<>> THEN 0
    ELSE (IF Head(items).product_id = pr THEN Head(items).quantity ELSE 0) + Ordered(Tail(items), pr)

\* The movements of a product: n rows of the type
Rows(d, pr, kind) ==
    LET b == d.inventory_movements
        rows == {r \in BagToSet(b) : r.product_id = pr /\ r.movement_type = kind}
    IN  BagCardinality([r \in rows |-> b[r]])

\* RECEIVE of 5, WASTE of 2 and the DISPENSE of a line of 1 have succeeded
\* once each, and nothing else
ReceivedWastedDispensed(d, pr) ==
    /\ Rows(d, pr, "RECEIVE") = 1 /\ Rows(d, pr, "WASTE") = 1
    /\ Rows(d, pr, "DISPENSE") = 1 /\ Rows(d, pr, "ADJUST") = 0

\* C14: the derived stock of a product changes with each successful
\* operation by that operation's quantity and with nothing else (a
\* successful movement request adds its effect, a successful finalize takes
\* the quantities of the order's lines), so that it is the sum over the
\* successful operations in whatever order they ran; after RECEIVE of 5,
\* WASTE of 2 and DISPENSE of 1 it is 2.
C14_StockIsSumOfMovements ==
    [][\A pr \in ProductIds :
          /\ Stock(db', pr) - Stock(db, pr) =
                IF \E p \in Procs : pc[p] = "movement_insert" /\ resp'[p] = "OK" /\ req[p].product_id = pr
                THEN LET p == CHOOSE q \in Procs : pc[q] = "movement_insert" /\ resp'[q] = "OK"
                     IN  Effect(req[p].op, req[p].quantity)
                ELSE IF \E p \in Procs : pc[p] = "finalize_order_update" /\ resp'[p] = "OK"
                THEN LET p == CHOOSE q \in Procs : pc[q] = "finalize_order_update" /\ resp'[q] = "OK"
                     IN  -Ordered(db.order_items[req[p].order_id], pr)
                ELSE 0
          /\ ReceivedWastedDispensed(db', pr) => Stock(db', pr) = 2]_vars

\* C14 witness: the three operations have succeeded and the stock is 2.
C14_Witness ==
    \E pr \in ProductIds : ReceivedWastedDispensed(db, pr) /\ Stock(db, pr) = 2

\* The five tables of the domain (audit_events is the middleware's)
DomainTables(d) ==
    <<d.members, d.member_verifications, d.inventory_movements, d.orders, d.order_items>>

\* C15: the step on which a call ends in an error, HTTP error or exception,
\* commits nothing to the members, member_verifications,
\* inventory_movements, orders and order_items tables (and no earlier step
\* of the call has committed: a handler commits once, as it ends).
C15_FailedCallWritesNothing ==
    [][\A p \in Procs :
          (resp[p] = "none" /\ resp'[p] \notin {"none", "OK"})
              => DomainTables(db') = DomainTables(db)]_vars

\* C16: a step commits a member_verifications row with outcome o for member
\* m only together with m existing with status o, and changes a member's
\* status only together with such a row; a verify_member that finds no
\* member row ends with NotFound and writes nothing.
C16_DecisionAtomic ==
    [][LET old == db.member_verifications
           new == db'.member_verifications
           added == {r \in BagToSet(new) : CopiesIn(r, new) > CopiesIn(r, old)}
       IN  /\ \A r \in added :
                 /\ r.member_id \in DOMAIN db'.members
                 /\ db'.members[r.member_id].status = r.outcome
           /\ \A m \in Kept :
                 db'.members[m].status # db.members[m].status
                     => \E r \in added : r.member_id = m /\ r.outcome = db'.members[m].status
           /\ \A p \in Procs :
                 (pc[p] = "verify_member_select" /\ Steps(p) /\ req[p].member_id \notin DOMAIN db.members)
                     => resp'[p] = "NotFound" /\ db' = db]_vars

\* The decision records of a member, and those with the latest timestamp
DecisionsOf(d, m) == {r \in BagToSet(d.member_verifications) : r.member_id = m}
LatestOf(d, m) == {r \in DecisionsOf(d, m) : \A r2 \in DecisionsOf(d, m) : r2.verified_at <= r.verified_at}

\* C17: after every step, the status of a member that has decision records
\* is the outcome of one with the latest verified_at, and a verify_member
\* that succeeds has added exactly one record.
C17_StatusIsLatestDecision ==
    [][/\ \A m \in DOMAIN db'.members :
             DecisionsOf(db', m) # {}
                 => \E r \in LatestOf(db', m) : r.outcome = db'.members[m].status
       /\ \A p \in Procs :
             (pc[p] = "verify_member_update" /\ resp'[p] = "OK")
                 => BagCardinality(db'.member_verifications) = BagCardinality(db.member_verifications) + 1]_vars

\* The movement rows a step commits
NewMovements ==
    {r \in BagToSet(db'.inventory_movements) :
        CopiesIn(r, db'.inventory_movements) > CopiesIn(r, db.inventory_movements)}

\* C18: every movement row that a step commits, the DISPENSE rows of a
\* finalize included, names a product that exists in the database the step
\* commits; a movement request for a product that does not exist ends with
\* NotFound and writes nothing.
C18_MovementProductExists ==
    [][/\ \A r \in NewMovements : r.product_id \in db'.products
       /\ \A p \in Procs :
             (pc[p] = "movement_select" /\ Steps(p) /\ req[p].product_id \notin db.products)
                 => resp'[p] = "NotFound" /\ db' = db]_vars

\* C19: after every step each order has completed_at set if and only if
\* its status is COMPLETED; no step removes an order, and a step leaves the
\* status and the completed_at of a COMPLETED order as they are.
C19_CompletionForward ==
    [][/\ \A o \in DOMAIN db'.orders :
             db'.orders[o].completed_at # NULL <=> db'.orders[o].status = "COMPLETED"
       /\ \A o \in DOMAIN db.orders :
             /\ o \in DOMAIN db'.orders
             /\ db.orders[o].status = "COMPLETED"
                   => /\ db'.orders[o].status = "COMPLETED"
                      /\ db'.orders[o].completed_at = db.orders[o].completed_at]_vars

C21_OrderMemberExists ==
    \A o \in DOMAIN db.orders : db.orders[o].member_id \in DOMAIN db.members

\* C22: no step of finalize_order reads the ledger: a finalize that finds
\* its order PLACED goes on to the member check, one that finds the member
\* VERIFIED and the order with lines goes on to its inserts, and the inserts
\* and the update end with the order COMPLETED and the stock of each product
\* lowered by the quantities of the lines, whatever the stock was.
C22_FinalizeIgnoresStock ==
    [][\A p \in Procs :
          (req[p].op = "finalize_order" /\ Steps(p)) =>
              LET o == req[p].order_id
              IN  /\ (/\ pc[p] = "finalize_order_select"
                      /\ o \in DOMAIN db.orders /\ db.orders[o].status = "PLACED")
                         => pc'[p] = "finalize_order_check" /\ resp'[p] = "none"
                  /\ (/\ pc[p] = "finalize_order_check"
                      /\ MemberVerified(db, loc[p].member_id) /\ db.order_items[o] # <<>>)
                         => pc'[p] = "finalize_order_insert" /\ resp'[p] = "none"
                  /\ pc[p] = "finalize_order_insert"
                         => /\ pc'[p] \in {"finalize_order_insert", "finalize_order_update"}
                            /\ resp'[p] = "none"
                  /\ pc[p] = "finalize_order_update"
                         => /\ resp'[p] = "OK" /\ db'.orders[o].status = "COMPLETED"
                            /\ \A pr \in ProductIds :
                                  Stock(db', pr) = Stock(db, pr) - Ordered(db.order_items[o], pr)]_vars

\* C22 witness: an order for a product that exists and was never received
\* has been finalized, and the derived stock of the product is negative.
C22_Witness ==
    \E pr \in db.products :
        /\ Rows(db, pr, "RECEIVE") = 0 /\ Stock(db, pr) < 0
        /\ \E o \in DOMAIN db.orders :
              /\ db.orders[o].status = "COMPLETED"
              /\ \E i \in DOMAIN db.order_items[o] : db.order_items[o][i].product_id = pr

====
